---- MODULE Spec2Model ----
(***************************************************************************)
(* FPC compression of IEEE-754 doubles (src/src/lib.rs): compress /        *)
(* compress_into and decompress / decompress_into.                         *)
(*                                                                         *)
(* A u64 is kept as four 16-bit limbs <<bits 63..48, 47..32, 31..16,       *)
(* 15..0>>, so that every 64-bit operation of the source (wrapping add and *)
(* sub, xor, shifts, byte masks, to_be_bytes, the decoder's shift-and-or   *)
(* reassembly) is computed at full width within TLC's integers.            *)
(* f64::to_bits / f64::from_bits are bit reinterpretations: inputs and     *)
(* outputs are bit patterns.                                               *)
(***************************************************************************)
EXTENDS Integers, Sequences, FiniteSets, TLC

VARIABLES
    table_size,   \* the table_size argument of compress and decompress
    fp_values,    \* the input of compress, as bit patterns
    pc,           \* position of the program
    i,            \* compress_into: loop index
    encoding,     \* compress: the header buffer handed to compress_into
    residual,     \* compress: the residual buffer handed to compress_into
    enc,          \* compress_into: predictor state and the iteration's locals
    enc_hist,     \* ghost: the encoder's predictor tuple after 0, 1, ... values
    blk,          \* the FPCCompressedBlock given to decompress
    dec,          \* decompress_into: predictor state, cursors, the value's locals
    res,          \* decompress: the output vector
    err           \* which panic ended the program, "none" otherwise

vars == <<table_size, fp_values, pc, i, encoding, residual, enc, enc_hist,
          blk, dec, res, err>>

----------------------------------------------------------------------------
(* Bounds of the model *)

MaxLen == 3
MaxNum == 2
MaxHdr == 2
MaxRes == 2

----------------------------------------------------------------------------
(* Bitwise operations on naturals *)

RECURSIVE BitXor(_, _)
BitXor(a, b) ==
    IF a = 0 THEN b
    ELSE IF b = 0 THEN a
    ELSE (((a % 2) + (b % 2)) % 2) + 2 * BitXor(a \div 2, b \div 2)

RECURSIVE BitAnd(_, _)
BitAnd(a, b) ==
    IF a = 0 \/ b = 0 THEN 0
    ELSE ((a % 2) * (b % 2)) + 2 * BitAnd(a \div 2, b \div 2)

RECURSIVE BitOr(_, _)
BitOr(a, b) ==
    IF a = 0 THEN b
    ELSE IF b = 0 THEN a
    ELSE (IF (a % 2) + (b % 2) > 0 THEN 1 ELSE 0) + 2 * BitOr(a \div 2, b \div 2)

----------------------------------------------------------------------------
(* u64 arithmetic on limbs *)

\* one past the largest 16-bit limb
Limb == 256 * 256

ZERO == <<0, 0, 0, 0>>

Xor64(a, b) ==
    <<BitXor(a[1], b[1]), BitXor(a[2], b[2]), BitXor(a[3], b[3]), BitXor(a[4], b[4])>>

WrappingAdd(a, b) ==
    LET s4 == a[4] + b[4]
        s3 == a[3] + b[3] + (s4 \div Limb)
        s2 == a[2] + b[2] + (s3 \div Limb)
        s1 == a[1] + b[1] + (s2 \div Limb)
    IN  <<s1 % Limb, s2 % Limb, s3 % Limb, s4 % Limb>>

WrappingSub(a, b) ==
    LET d4 == a[4] - b[4]
        d3 == a[3] - b[3] - (IF d4 < 0 THEN 1 ELSE 0)
        d2 == a[2] - b[2] - (IF d3 < 0 THEN 1 ELSE 0)
        d1 == a[1] - b[1] - (IF d2 < 0 THEN 1 ELSE 0)
    IN  <<(d1 + Limb) % Limb, (d2 + Limb) % Limb, (d3 + Limb) % Limb, (d4 + Limb) % Limb>>

Less64(a, b) ==
    \/ a[1] < b[1]
    \/ a[1] = b[1] /\ a[2] < b[2]
    \/ a[1] = b[1] /\ a[2] = b[2] /\ a[3] < b[3]
    \/ a[1] = b[1] /\ a[2] = b[2] /\ a[3] = b[3] /\ a[4] < b[4]

Min64(a, b) == IF Less64(b, a) THEN b ELSE a

Shr48(v) == v[1]

Shr40(v) == v[1] * 256 + (v[2] \div 256)

\* (v & BYTE_MASK[x]) moved down to a byte: x = 0 is the most significant byte
ByteAt(v, x) ==
    LET limb == v[(x \div 2) + 1]
    IN  IF x % 2 = 0 THEN limb \div 256 ELSE limb % 256

ToBeBytes(v) ==
    <<ByteAt(v, 0), ByteAt(v, 1), ByteAt(v, 2), ByteAt(v, 3),
      ByteAt(v, 4), ByteAt(v, 5), ByteAt(v, 6), ByteAt(v, 7)>>

\* (decoded << 8) | byte, at 64 bits
Shl8Or(d, byte) ==
    <<(d[1] % 256) * 256 + (d[2] \div 256),
      (d[2] % 256) * 256 + (d[3] \div 256),
      (d[3] % 256) * 256 + (d[4] \div 256),
      (d[4] % 256) * 256 + byte>>

----------------------------------------------------------------------------
(* Pieces of compress_into and decompress_into *)

DEFAULT_TABLE_SIZE == 32

\* the scan over BYTE_MASK that counts the leading zero bytes of to_encode
RECURSIVE CountLzb(_, _)
CountLzb(v, x) ==
    IF x = 8 THEN 0
    ELSE IF ByteAt(v, x) # 0 THEN 0
    ELSE 1 + CountLzb(v, x + 1)

LeadingZeroBytes(v) == CountLzb(v, 0)

ResidualBytes_DropFourth(bytes, lzb) == SubSeq(bytes, lzb + 1, 8)

\* the bytes of to_encode appended to the residual
ResidualBytes(bytes, lzb) ==
    IF lzb = 4 THEN SubSeq(bytes, 4, 8) ELSE SubSeq(bytes, lzb + 1, 8)

LzbCode_KeepFour(lzb) == IF lzb > 4 THEN lzb - 1 ELSE lzb

\* the 3-bit code written for a count of leading zero bytes
LzbCode(lzb) == IF lzb >= 4 THEN lzb - 1 ELSE lzb

PredictorSelect_TieToFcm(fcm_diff, dfcm_diff) ==
    IF ~Less64(dfcm_diff, fcm_diff) THEN 8 ELSE 0

\* bit 3 of the tag
PredictorSelect(fcm_diff, dfcm_diff) ==
    IF Less64(fcm_diff, dfcm_diff) THEN 8 ELSE 0

HeaderLen_RoundDown(n) == n \div 2

\* length of the header buffer compress allocates
HeaderLen(n) == (n + 1) \div 2

FcmHash(h, v, T) == BitAnd(BitXor(h * 64, Shr48(v)), T - 1)

DfcmHash(h, delta, T) == BitAnd(BitXor(h * 4, Shr40(delta)), T - 1)

Table(T) == [k \in 0 .. (T - 1) |-> ZERO]

\* the predictor tuple of a call: (fcm_hash, dfcm_hash, fcm, dfcm, last_value)
InitPredictors(T) ==
    [last_value |-> ZERO, fcm_hash |-> 0, fcm |-> Table(T),
     dfcm_hash |-> 0, dfcm |-> Table(T)]

Predictors(s) ==
    [last_value |-> s.last_value, fcm_hash |-> s.fcm_hash, fcm |-> s.fcm,
     dfcm_hash |-> s.dfcm_hash, dfcm |-> s.dfcm]

\* encoder: table writes, hash updates and last_value for true_value
EncUpdate(e, true_value, T) ==
    LET delta == WrappingSub(true_value, e.last_value)
    IN  [last_value |-> true_value,
         fcm_hash   |-> FcmHash(e.fcm_hash, true_value, T),
         fcm        |-> [e.fcm EXCEPT ![e.fcm_hash] = true_value],
         dfcm_hash  |-> DfcmHash(e.dfcm_hash, delta, T),
         dfcm       |-> [e.dfcm EXCEPT ![e.dfcm_hash] = delta]]

DecUpdate_StoreValue(d, decoded, T) ==
    LET delta == WrappingSub(decoded, d.last_value)
    IN  [last_value |-> decoded,
         fcm_hash   |-> FcmHash(d.fcm_hash, decoded, T),
         fcm        |-> [d.fcm EXCEPT ![d.fcm_hash] = decoded],
         dfcm_hash  |-> DfcmHash(d.dfcm_hash, delta, T),
         dfcm       |-> [d.dfcm EXCEPT ![d.dfcm_hash] = decoded]]

\* decoder: table writes, hash updates and last_value for decoded
DecUpdate(d, decoded, T) ==
    LET delta == WrappingSub(decoded, d.last_value)
    IN  [last_value |-> decoded,
         fcm_hash   |-> FcmHash(d.fcm_hash, decoded, T),
         fcm        |-> [d.fcm EXCEPT ![d.fcm_hash] = decoded],
         dfcm_hash  |-> DfcmHash(d.dfcm_hash, delta, T),
         dfcm       |-> [d.dfcm EXCEPT ![d.dfcm_hash] = delta]]

DecodeLzb_NoSkip(code) == code

\* decoder: the leading zero bytes a 3-bit code stands for
DecodeLzb(code) == IF code >= 4 THEN code + 1 ELSE code

\* decoder: the residual_index bytes of a value, shifted in one by one
RECURSIVE ReadResidual(_, _, _, _)
ReadResidual(bytes, index, n, decoded) ==
    IF n = 0 THEN decoded
    ELSE ReadResidual(bytes, index + 1, n - 1, Shl8Or(decoded, bytes[index + 1]))

OddTail_OffByOne(encoded_index, b) ==
    encoded_index = Len(b.encoding) /\ b.num_bytes_encoded % 2 # 0

\* decoder: the break before the low nibble of the last header byte
OddTail(encoded_index, b) ==
    encoded_index = Len(b.encoding) - 1 /\ b.num_bytes_encoded % 2 # 0

\* the tag of value k in a header: high nibble for even k, low for odd
Nibble(header, k) ==
    IF k % 2 = 0 THEN header[(k \div 2) + 1] \div 16
    ELSE header[(k \div 2) + 1] % 16

----------------------------------------------------------------------------
(* Inputs *)

\* bit patterns of the doubles the inputs are drawn from
Values ==
    { ZERO,                       \* 0.0
      <<16368, 0, 0, 0>>,         \* 1.0            0x3FF0000000000000
      <<32760, 0, 0, 0>>,         \* NaN            0x7FF8000000000000
      <<65520, 0, 0, 0>>,         \* -infinity      0xFFF0000000000000
      <<0, 0, 4660, 22136>>,      \* subnormal      0x0000000012345678
      <<0, 0, 171, 52719>>,       \* subnormal      0x0000000000ABCDEF
      <<16385, 256, 0, 1>> }      \*                0x4001010000000001

BoundedSeq(S, n) == UNION {[1 .. k -> S] : k \in 0 .. n}

\* table sizes compress accepts, and the sizes it is specified to reject
ValidSizes == {1, 2, DEFAULT_TABLE_SIZE, 128}

ConfigErrorSizes == {0, 3, 6, 10, 12}

\* table sizes, header bytes and residual bytes of the blocks handed to
\* decompress directly
BlockSizes == {0, 1, 3, DEFAULT_TABLE_SIZE}

HeaderBytes == {119, 112, 111, 229}   \* 0x77, 0x70, 0x6F, 0xE5

ResidualByteValues == {1, 255}

EncLocals0 == [fcm_diff |-> ZERO, dfcm_diff |-> ZERO, to_encode |-> ZERO, lzb |-> 0]

DecLocals0 ==
    [residual_index |-> 0, encoded_index |-> 0, is_fcm_predicted |-> FALSE,
     fcm_prediction |-> ZERO, dfcm_prediction |-> ZERO,
     num_leading_zero_bytes |-> 0, raw |-> ZERO, decoded |-> ZERO]

EmptyBlock == [num_bytes_encoded |-> 0, encoding |-> <<>>, residual |-> <<>>]

----------------------------------------------------------------------------
(* compress *)

Init ==
    /\ table_size \in ValidSizes \cup ConfigErrorSizes
    /\ fp_values \in BoundedSeq(Values, MaxLen)
    /\ pc = "compress"
    /\ i = 0
    /\ encoding = <<>>
    /\ residual = <<>>
    /\ enc = InitPredictors(0) @@ EncLocals0
    /\ enc_hist = <<>>
    /\ blk = EmptyBlock
    /\ dec = InitPredictors(0) @@ DecLocals0
    /\ res = <<>>
    /\ err = "none"

\* compress up to the first iteration of compress_into's loop
Compress ==
    /\ pc = "compress"
    /\ encoding' = [k \in 1 .. HeaderLen(Len(fp_values)) |-> 0]
    /\ residual' = <<>>
    /\ i' = 0
    /\ IF fp_values = <<>>
       THEN /\ pc' = "compressed"
            /\ blk' = [num_bytes_encoded |-> Len(fp_values),
                       encoding |-> encoding', residual |-> residual']
            /\ UNCHANGED <<enc, enc_hist, err>>
       ELSE IF table_size = 0 \/ BitAnd(table_size, table_size - 1) # 0
       THEN /\ pc' = "panicked"
            /\ err' = "config"
            /\ UNCHANGED <<enc, enc_hist, blk>>
       ELSE /\ pc' = "compress_loop"
            /\ enc' = InitPredictors(table_size) @@ EncLocals0
            /\ enc_hist' = <<InitPredictors(table_size)>>
            /\ UNCHANGED <<blk, err>>
    /\ UNCHANGED <<table_size, fp_values, dec, res>>

\* one iteration of compress_into's loop; the last one returns to compress,
\* which builds the block
EncodeStep ==
    /\ pc = "compress_loop"
    /\ i < Len(fp_values)
    /\ LET true_value      == fp_values[i + 1]
           fcm_prediction  == enc.fcm[enc.fcm_hash]
           dfcm_prediction == WrappingAdd(enc.dfcm[enc.dfcm_hash], enc.last_value)
           next            == EncUpdate(enc, true_value, table_size)
           fcm_diff        == Xor64(fcm_prediction, true_value)
           dfcm_diff       == Xor64(dfcm_prediction, true_value)
           to_encode       == Min64(fcm_diff, dfcm_diff)
           lzb             == LeadingZeroBytes(to_encode)
           bytes           == ToBeBytes(to_encode)
           mask            == BitOr(LzbCode(lzb), PredictorSelect(fcm_diff, dfcm_diff))
           shift           == IF i % 2 = 0 THEN 16 ELSE 1
           slot            == (i \div 2) + 1
       IN  /\ enc' = next @@ [fcm_diff |-> fcm_diff, dfcm_diff |-> dfcm_diff,
                              to_encode |-> to_encode, lzb |-> lzb]
           /\ enc_hist' = Append(enc_hist, next)
           /\ residual' = residual \o ResidualBytes(bytes, lzb)
           /\ IF slot > Len(encoding)
              THEN /\ pc' = "panicked"
                   /\ err' = "index"
                   /\ UNCHANGED <<encoding, i, blk>>
              ELSE /\ encoding' = [encoding EXCEPT ![slot] = BitOr(@, mask * shift)]
                   /\ i' = i + 1
                   /\ err' = err
                   /\ IF i + 1 = Len(fp_values)
                      THEN /\ pc' = "compressed"
                           /\ blk' = [num_bytes_encoded |-> Len(fp_values),
                                      encoding |-> encoding', residual |-> residual']
                      ELSE /\ pc' = "compress_loop"
                           /\ blk' = blk
    /\ UNCHANGED <<table_size, fp_values, dec, res>>

----------------------------------------------------------------------------
(* decompress *)

\* decompress up to the first test of decompress_into's loop
Decompress ==
    /\ pc = "compressed"
    /\ res' = <<>>
    /\ IF blk.num_bytes_encoded = 0
       THEN /\ pc' = "returned"
            /\ dec' = dec
       ELSE /\ dec' = InitPredictors(table_size) @@ DecLocals0
            /\ pc' = IF 0 < Len(blk.encoding) THEN "decompress_first" ELSE "returned"
    /\ UNCHANGED <<table_size, fp_values, i, encoding, residual, enc, enc_hist, blk, err>>

\* the decoding of one tag: the new dec record, or the panic that ends it.
\* With table_size = 0 the tables are empty and fcm[fcm_hash] is out of
\* bounds before anything else of the value is computed.
DecodeValue(d, tag) ==
    IF d.fcm_hash \notin DOMAIN d.fcm
    THEN [panic |-> "index", dec |-> d]
    ELSE
    LET fcm_prediction   == d.fcm[d.fcm_hash]
        dfcm_prediction  == d.dfcm[d.dfcm_hash]
        is_fcm_predicted == BitAnd(tag, 8) # 0
        nlzb             == DecodeLzb(BitAnd(tag, 7))
        locals           == [is_fcm_predicted |-> is_fcm_predicted,
                             fcm_prediction |-> fcm_prediction,
                             dfcm_prediction |-> dfcm_prediction,
                             num_leading_zero_bytes |-> nlzb]
    IN  IF d.residual_index + (8 - nlzb) > Len(blk.residual)
        THEN [panic |-> "malformed",
              dec |-> locals @@ [residual_index |-> Len(blk.residual)] @@ d]
        ELSE
        LET raw     == ReadResidual(blk.residual, d.residual_index, 8 - nlzb, ZERO)
            decoded == Xor64(raw, IF is_fcm_predicted THEN fcm_prediction
                                  ELSE WrappingAdd(dfcm_prediction, d.last_value))
        IN  [panic |-> "none",
             dec |-> DecUpdate(d, decoded, table_size) @@ locals @@
                     [residual_index |-> d.residual_index + (8 - nlzb),
                      raw |-> raw, decoded |-> decoded] @@ d]

\* the high nibble of header byte encoded_index, and the odd-tail break
DecodeFirst ==
    /\ pc = "decompress_first"
    /\ LET out == DecodeValue(dec, blk.encoding[dec.encoded_index + 1] \div 16)
       IN  /\ dec' = out.dec
           /\ IF out.panic # "none"
              THEN /\ pc' = "panicked"
                   /\ err' = out.panic
                   /\ res' = res
              ELSE /\ res' = Append(res, out.dec.decoded)
                   /\ err' = err
                   /\ pc' = IF OddTail(dec.encoded_index, blk)
                            THEN "returned" ELSE "decompress_second"
    /\ UNCHANGED <<table_size, fp_values, i, encoding, residual, enc, enc_hist, blk>>

\* the low nibble of header byte encoded_index, and the loop's next test
DecodeSecond ==
    /\ pc = "decompress_second"
    /\ LET out == DecodeValue(dec, blk.encoding[dec.encoded_index + 1] % 16)
       IN  IF out.panic # "none"
           THEN /\ dec' = out.dec
                /\ pc' = "panicked"
                /\ err' = out.panic
                /\ res' = res
           ELSE /\ dec' = [out.dec EXCEPT !.encoded_index = @ + 1]
                /\ res' = Append(res, out.dec.decoded)
                /\ err' = err
                /\ pc' = IF dec.encoded_index + 1 < Len(blk.encoding)
                         THEN "decompress_first" ELSE "returned"
    /\ UNCHANGED <<table_size, fp_values, i, encoding, residual, enc, enc_hist, blk>>

----------------------------------------------------------------------------
(* Specifications *)

Next == Compress \/ EncodeStep \/ Decompress \/ DecodeFirst \/ DecodeSecond

\* compress(table_size, fp_values), then decompress of the block it returned
Spec == Init /\ [][Next]_vars

\* decompress of any block
InitDec ==
    /\ table_size \in BlockSizes
    /\ blk \in [num_bytes_encoded : 0 .. MaxNum,
                encoding : BoundedSeq(HeaderBytes, MaxHdr),
                residual : BoundedSeq(ResidualByteValues, MaxRes)]
    /\ fp_values = <<>>
    /\ pc = "compressed"
    /\ i = 0
    /\ encoding = <<>>
    /\ residual = <<>>
    /\ enc = InitPredictors(0) @@ EncLocals0
    /\ enc_hist = <<>>
    /\ dec = InitPredictors(0) @@ DecLocals0
    /\ res = <<>>
    /\ err = "none"

NextDec == Decompress \/ DecodeFirst \/ DecodeSecond

SpecDec == InitDec /\ [][NextDec]_vars

----------------------------------------------------------------------------
(* Properties *)

DecoderPcs == {"decompress_first", "decompress_second", "returned"}

BlockPcs == {"compressed"} \cup DecoderPcs

\* decode_lzb of the format: codes 0..3 stand for themselves, 4..7 for 5..8
FormatLzb(c) == IF c < 4 THEN c ELSE c + 1

\* residual bytes the tags of the first n values of a header account for
RECURSIVE TagBytes(_, _)
TagBytes(header, n) ==
    IF n = 0 THEN 0
    ELSE TagBytes(header, n - 1) + (8 - FormatLzb(Nibble(header, n - 1) % 8))

\* C1: with a power-of-two table size the round trip never panics, every
\* value the decoder emits is the input value at that index bit for bit, and
\* the returned sequence is the input.
RoundTrip ==
    table_size \in ValidSizes =>
        /\ pc # "panicked"
        /\ err = "none"
        /\ pc \in DecoderPcs => res = SubSeq(fp_values, 1, Len(res))
        /\ pc = "returned" => res = fp_values

RoundTripWitness ==
    /\ pc = "returned"
    /\ table_size = DEFAULT_TABLE_SIZE
    /\ Len(fp_values) = 3
    /\ res = fp_values
    /\ res[1] = <<32760, 0, 0, 0>>
    /\ res[3] = <<65520, 0, 0, 0>>

\* C2: with a power-of-two table size compress returns, and the block it
\* returns has num_bytes_encoded = len(V) and a header of ceil(len(V)/2) bytes.
BlockShape ==
    table_size \in ValidSizes =>
        /\ pc # "panicked"
        /\ pc \in BlockPcs =>
              /\ blk.num_bytes_encoded = Len(fp_values)
              /\ 2 * Len(blk.encoding) \in {Len(fp_values), Len(fp_values) + 1}

BlockShapeWitness ==
    /\ pc = "compressed"
    /\ Len(fp_values) = 3
    /\ blk.num_bytes_encoded = 3
    /\ Len(blk.encoding) = 2

\* C3 as stated: no tag written for a value has lzb_code 4.
NoTagFour ==
    \A k \in 0 .. (i - 1) : Nibble(encoding, k) % 8 # 4

\* C3 amended: the tag of the value just encoded has lzb_code 4 exactly when
\* its chosen XOR has 5 leading zero bytes; a count of 4 is written as 3.
TagFourIsFiveZeroBytes ==
    i > 0 =>
        LET code == Nibble(encoding, i - 1) % 8
        IN  /\ code = 4 <=> enc.lzb = 5
            /\ enc.lzb = 4 => code = 3

TagFourWitness ==
    /\ i > 0
    /\ enc.lzb = 5
    /\ Nibble(encoding, i - 1) % 8 = 4

\* C4 as stated: with a table size of 0, 3, 6, 10 or 12 a call does nothing
\* but fail with the configuration error.
ConfigErrorSurface ==
    table_size \in ConfigErrorSizes =>
        \/ pc = "compress"
        \/ pc = "panicked" /\ err = "config"

\* C5: the residual holds, for each value encoded so far, 8 - decode_lzb of
\* its tag's low 3 bits; a chosen XOR with exactly 4 leading zero bytes added
\* 5 bytes and a zero XOR added none.
ResidualAccounting ==
    /\ Len(residual) = TagBytes(encoding, i)
    /\ pc \in BlockPcs /\ blk.num_bytes_encoded = Len(fp_values) =>
          Len(blk.residual) = TagBytes(blk.encoding, blk.num_bytes_encoded)
    /\ i > 0 /\ enc.lzb = 4 => Len(residual) = TagBytes(encoding, i - 1) + 5
    /\ i > 0 /\ enc.to_encode = ZERO => Len(residual) = TagBytes(encoding, i - 1)

ResidualAccountingWitness ==
    /\ pc = "compressed"
    /\ Len(fp_values) = 3
    /\ enc.lzb = 8
    /\ Len(blk.residual) = 5

\* the tag the decoder is about to decode, and the residual bytes it asks for
CurrentTag ==
    IF pc = "decompress_first"
    THEN blk.encoding[dec.encoded_index + 1] \div 16
    ELSE blk.encoding[dec.encoded_index + 1] % 16

Underflow ==
    /\ pc \in {"decompress_first", "decompress_second"}
    /\ 8 - FormatLzb(CurrentTag % 8) > Len(blk.residual) - dec.residual_index

\* C6 as stated: for every block and table size, a tag that asks for more
\* residual bytes than remain ends decompress_into with the malformed-block
\* error, with the cursor inside the residual and the output left as it was.
ResidualUnderflow ==
    [][Underflow =>
          /\ pc' = "panicked"
          /\ err' = "malformed"
          /\ dec'.residual_index <= Len(blk.residual)
          /\ res' = res]_vars

\* C6 for the table sizes whose tables are not empty.
ResidualUnderflowNonzeroSize ==
    [][Underflow /\ table_size # 0 =>
          /\ pc' = "panicked"
          /\ err' = "malformed"
          /\ dec'.residual_index <= Len(blk.residual)
          /\ res' = res]_vars

\* C7 as stated: when decompress returns, it returns num_bytes_encoded values.
DecodedCount ==
    pc = "returned" => Len(res) = blk.num_bytes_encoded

\* C8: for an input of odd length the low nibble of the last header byte is
\* zero, the decoder never decodes that nibble, and it returns len(V) values
\* with the cursor at the end of the residual.
OddTailSkipped ==
    table_size \in ValidSizes /\ Len(fp_values) % 2 = 1 =>
        /\ pc # "panicked"
        /\ pc \in BlockPcs => blk.encoding[Len(blk.encoding)] % 16 = 0
        /\ ~(pc = "decompress_second" /\ dec.encoded_index = Len(blk.encoding) - 1)
        /\ pc = "returned" =>
              /\ Len(res) = Len(fp_values)
              /\ dec.encoded_index = Len(blk.encoding) - 1
              /\ dec.residual_index = Len(blk.residual)

OddTailWitness ==
    /\ pc = "returned"
    /\ Len(fp_values) = 3
    /\ Len(res) = 3
    /\ Len(blk.residual) > 0

\* C9: after k values the decoder's tuple (fcm_hash, dfcm_hash, fcm, dfcm,
\* last_value) is the encoder's tuple after k values, and the hashes of both
\* sides stay below the table size.
LockStep ==
    table_size \in ValidSizes =>
        /\ \A k \in 1 .. Len(enc_hist) :
              enc_hist[k].fcm_hash < table_size /\ enc_hist[k].dfcm_hash < table_size
        /\ pc \in DecoderPcs /\ blk.num_bytes_encoded > 0 =>
              /\ Len(res) < Len(enc_hist)
              /\ Predictors(dec) = enc_hist[Len(res) + 1]
              /\ dec.fcm_hash < table_size
              /\ dec.dfcm_hash < table_size

LockStepWitness ==
    /\ pc = "returned"
    /\ table_size = 128
    /\ Len(res) = 3
    /\ dec.fcm_hash # 0
    /\ dec.dfcm_hash # 0
    /\ dec.dfcm[0] # ZERO

\* C10: the encoder encodes the smaller difference and sets bit 3 of the tag
\* exactly when fcm_diff < dfcm_diff (a tie gives 0); the decoder XORs the
\* residual with the FCM prediction when bit 3 is 1 and with
\* dfcm[dfcm_hash] + last_value otherwise.
PredictorChoice ==
    /\ i > 0 =>
          LET bit3 == Nibble(encoding, i - 1) \div 8
          IN  /\ enc.to_encode \in {enc.fcm_diff, enc.dfcm_diff}
              /\ ~Less64(enc.fcm_diff, enc.to_encode)
              /\ ~Less64(enc.dfcm_diff, enc.to_encode)
              /\ bit3 = 1 <=> Less64(enc.fcm_diff, enc.dfcm_diff)
              /\ enc.fcm_diff = enc.dfcm_diff => bit3 = 0
    /\ pc \in DecoderPcs /\ Len(res) > 0 /\ table_size \in ValidSizes =>
          LET k    == Len(res)
              bit3 == Nibble(blk.encoding, k - 1) \div 8
              was  == enc_hist[k]
          IN  /\ dec.fcm_prediction = was.fcm[was.fcm_hash]
              /\ dec.dfcm_prediction = was.dfcm[was.dfcm_hash]
              /\ res[k] = Xor64(dec.raw,
                                IF bit3 = 1 THEN dec.fcm_prediction
                                ELSE WrappingAdd(dec.dfcm_prediction, was.last_value))

PredictorChoiceWitness ==
    /\ pc \in DecoderPcs
    /\ Len(res) = 2
    /\ enc_hist[1].fcm[0] = enc_hist[1].dfcm[0]
    /\ Nibble(blk.encoding, 0) \div 8 = 0
    /\ Nibble(blk.encoding, 1) \div 8 = 1

====
